---- MODULE Spec2Model ----
(***************************************************************************)
(* Model of src/main.rs of eldritch_cube: main() builds the display, the   *)
(* GPU buffers, the shader program and the constant matrices, then hands a *)
(* closure to event_loop.run.  The closure is called once per event; it    *)
(* arms the next wake-up, filters the event and renders one frame.         *)
(*                                                                         *)
(* f32 values of the angle are exact multiples of 2^-28 (DTHETA is         *)
(* 5368709 * 2^-28 and PI2 is 13176795 * 2^-21), so theta is held as an    *)
(* integer count of 2^-28 and the f32 addition is rounded as IEEE-754      *)
(* rounds it (24 significant bits, ties to even).                          *)
(***************************************************************************)
EXTENDS Integers, Sequences, FiniteSets, TLC

\* ------------------------------------------------------------------ bounds
\* Frames rendered before the model stops rendering (the angle wraps at
\* the 315th frame).
MaxFrames == 316
\* The 16_666_667 ns frame period, counted in clock quanta of the model.
FrameQuanta == 2
\* The longest time one pass through the render section takes, in quanta
\* (longer than the frame period: rendering may exceed the budget).
RenderQuanta == 3

\* --------------------------------------------------------------- constants
\* 0.02f32 = 0x3CA3D70A = 5368709 * 2^-28
DTHETA == 5368709
\* PI * 2.0 in f32 = 0x40C90FDB = 13176795 * 2^-21 = 1686629760 * 2^-28
PI2 == 1686629760
\* fixed point unit of the matrix entries (six decimals)
Unit == 1000000
\* WIN_WIDTH and WIN_HEIGHT
WIN_WIDTH == 800
WIN_HEIGHT == 600
\* tan(PI / 8) = tan(fovy / 2) for fovy = PI / 4, in Unit
TanHalfFovy == 414214
\* near = 0.1 and far = 100.0, in Unit
ZNear == 100000
ZFar == 100000000

VARIABLES
    pc,          \* position of main: display, vbo, ibuf, program, setup, run,
                 \* failed (main returned Err), panicked, exited
    initLog,     \* the fallible initialization calls made so far, in order,
                 \* each with its result
    phase,       \* position of the event loop inside one iteration
    ctrlflow,    \* *ctrlflow as the event loop holds it: Poll, WaitUntil, Exit
    remaining,   \* quanta left until the armed wake-up deadline
    theta,       \* the rotation angle, in units of 2^-28
    view,        \* the View matrix captured by the closure
    projection,  \* the Projection matrix captured by the closure
    clears,      \* clear_color_and_depth calls issued
    draws,       \* target.draw calls issued
    presents,    \* target.finish calls issued
    frames,      \* frames completed (theta advanced)
    firstDraw,   \* the uniforms of the first draw call
    lastDraw,    \* the uniforms of the latest draw call
    failedCall,  \* the first frame call that returned Err: none, draw, finish
    lastEvent,   \* the event the closure was last called with
    vbo,         \* the vertex buffer on the GPU
    ibuf,        \* the index buffer on the GPU
    steps,       \* the statements the latest closure call executed, in order
    renderTime,  \* quanta the latest closure call spent in the render section
    frameWait    \* quanta left until the deadline armed by the closure call
                 \* that rendered the latest frame

vars == <<pc, initLog, phase, ctrlflow, remaining, theta, view, projection,
          clears, draws, presents, frames, firstDraw, lastDraw, failedCall,
          lastEvent, vbo, ibuf, steps, renderTime, frameWait>>

initVars == <<pc, initLog, view, projection>>
bufVars == <<vbo, ibuf>>
callVars == <<steps, renderTime, frameWait>>
loopVars == <<phase, ctrlflow, remaining, lastEvent>>
frameVars == <<theta, clears, draws, presents, frames, firstDraw, lastDraw,
               failedCall>>

NoMatrix == <<>>
NoDraw == [m |-> -1, v |-> NoMatrix, p |-> NoMatrix]

\* ---------------------------------------------------------------- geometry
\* lines 38-50: the 8 vertices; coord and rgba in Unit (0.5 is Unit \div 2)
Vertex(x, y, z, r, g, b, a) ==
    [coord |-> <<x * (Unit \div 2), y * (Unit \div 2), z * (Unit \div 2)>>,
     rgba |-> <<r * Unit, g * Unit, b * Unit, a * Unit>>]

cube ==
    << \* Front face
       Vertex(1, 1, 1, 1, 0, 0, 1),
       Vertex(1, -1, 1, 1, 0, 0, 1),
       Vertex(-1, -1, 1, 1, 0, 0, 1),
       Vertex(-1, 1, 1, 1, 0, 0, 1),
       \* Back face
       Vertex(1, 1, -1, 0, 0, 1, 1),
       Vertex(1, -1, -1, 0, 0, 1, 1),
       Vertex(-1, -1, -1, 0, 0, 1, 1),
       Vertex(-1, 1, -1, 0, 0, 1, 1) >>

\* an index list with one entry past the last vertex
indicesOutOfRange ==
    << 0, 1, 2, 0, 2, 3,
       0, 1, 5, 0, 4, 5,
       2, 3, 6, 3, 6, 7,
       5, 6, 7, 4, 5, 8,
       0, 3, 7, 0, 4, 7,
       1, 2, 6, 1, 5, 6 >>

\* an index list whose fourth triangle repeats the first diagonal
indicesWrongTriangle ==
    << 0, 1, 2, 0, 2, 3,
       0, 1, 5, 0, 1, 5,
       2, 3, 6, 3, 6, 7,
       5, 6, 7, 4, 5, 7,
       0, 3, 7, 0, 4, 7,
       1, 2, 6, 1, 5, 6 >>

\* lines 52-59: the 36 indices (u8, counting the vertices from 0)
indices ==
    << 0, 1, 2, 0, 2, 3,
       0, 1, 5, 0, 4, 5,
       2, 3, 6, 3, 6, 7,
       5, 6, 7, 4, 5, 7,
       0, 3, 7, 0, 4, 7,
       1, 2, 6, 1, 5, 6 >>

\* a buffer that has not been uploaded
NoBuffer == <<>>

\* ---------------------------------------------------------------- matrices
Identity ==
    <<<<Unit, 0, 0, 0>>, <<0, Unit, 0, 0>>, <<0, 0, Unit, 0>>, <<0, 0, 0, Unit>>>>

\* glm::translate(m, v): the last column becomes m0*v0 + m1*v1 + m2*v2 + m3
\* (column-major storage, entries in Unit)
Translate(m, v) ==
    [c \in 1..4 |->
        IF c < 4 THEN m[c]
        ELSE [r \in 1..4 |->
                (m[1][r] \div 1000) * (v[1] \div 1000)
                + (m[2][r] \div 1000) * (v[2] \div 1000)
                + (m[3][r] \div 1000) * (v[3] \div 1000)
                + m[4][r]]]

\* glm::perspective(aspect, fovy, near, far) with tan(fovy / 2) given; the
\* entries are computed to three decimals: f = 1 / tan(fovy / 2),
\* [0][0] = f / aspect, [1][1] = f, [2][2] = -(far + near) / (far - near),
\* [2][3] = -1, [3][2] = -2 * far * near / (far - near)
Perspective(aspectNum, aspectDen, tanHalf, near, far) ==
    LET f == (Unit * 1000) \div tanHalf
        depth == (far - near) \div 1000
    IN  <<<<((f * aspectDen) \div aspectNum) * 1000, 0, 0, 0>>,
          <<0, f * 1000, 0, 0>>,
          <<0, 0, -((far + near) \div depth) * 1000, -Unit>>,
          <<0, 0, -((2 * (far \div Unit) * near) \div depth) * 1000, 0>>>>

v_matrix == Translate(Identity, <<0, 0, -3500000>>)
p_matrix == Perspective(WIN_WIDTH, WIN_HEIGHT, TanHalfFovy, ZNear, ZFar)

\* --------------------------------------------------------------- f32 angle
RECURSIVE Pow2(_)
Pow2(n) == IF n = 0 THEN 1 ELSE 2 * Pow2(n - 1)

\* the spacing of the f32 values around s (s in units of 2^-28): a value
\* keeps 24 significant bits
RECURSIVE Ulp(_)
Ulp(s) == IF s < Pow2(24) THEN 1 ELSE 2 * Ulp(s \div 2)

\* s rounded to the nearest f32 value, ties to the even mantissa
F32Round(s) ==
    LET q == Ulp(s)
        r == s % q
        down == s - r
    IN  IF 2 * r < q THEN down
        ELSE IF 2 * r > q THEN down + q
        ELSE IF (down \div q) % 2 = 0 THEN down ELSE down + q

\* theta + DTHETA in f32
F32Add(a, b) == F32Round(a + b)

\* a % b in f32 (fmod, exact for non-negative operands)
F32Rem(a, b) == a % b

\* the update without the remainder
NextThetaNoWrap(t) == F32Add(t, DTHETA)

\* the update stepping twice per frame
NextThetaTwoSteps(t) == F32Rem(F32Add(F32Add(t, DTHETA), DTHETA), PI2)

\* the update wrapping at PI instead of PI * 2.0
NextThetaHalfTurn(t) == F32Rem(F32Add(t, DTHETA), PI2 \div 2)

\* line 162: theta = (theta + DTHETA) % PI2
NextTheta(t) == F32Rem(F32Add(t, DTHETA), PI2)

\* uniforms whose View is translated further with the angle
UniformsViewDrifts(t) ==
    [m |-> t, v |-> Translate(view, <<0, 0, -t>>), p |-> projection]

\* uniforms whose Model matrix is made from the angle after its advance
UniformsAfterAdvance(t) == [m |-> NextTheta(t), v |-> view, p |-> projection]

\* line 146-153: the uniforms of one draw call; the Model matrix is
\* glm::rotate(identity, theta, (0, 1, -1)), held by its angle
Uniforms(t) == [m |-> t, v |-> view, p |-> projection]

\* ------------------------------------------------------------------- Init
Init ==
    /\ pc = "display"
    /\ initLog = <<>>
    /\ phase = "start"
    /\ ctrlflow = "Poll"
    /\ remaining = 0
    /\ theta = 0
    /\ view = NoMatrix
    /\ projection = NoMatrix
    /\ clears = 0
    /\ draws = 0
    /\ presents = 0
    /\ frames = 0
    /\ firstDraw = NoDraw
    /\ lastDraw = NoDraw
    /\ failedCall = "none"
    /\ lastEvent = "none"
    /\ vbo = NoBuffer
    /\ ibuf = NoBuffer
    /\ steps = <<>>
    /\ renderTime = 0
    /\ frameWait = 0

\* ------------------------------------------------- initialization of main
\* one fallible call followed by `?`: Ok goes on to the next statement, Err
\* makes main return the error
\* a `?` that drops the error and goes on
QuestionIgnoresErr(ok, next) == next

\* the `?` operator on the Result of an initialization call
Question(ok, next) == IF ok THEN next ELSE "failed"

TryStep(at, call, ok, next) ==
    /\ pc = at
    /\ initLog' = Append(initLog, [call |-> call, ok |-> ok])
    /\ pc' = Question(ok, next)

\* line 36: Display::new(window, context, &event_loop)?
InitDisplay ==
    /\ \E ok \in BOOLEAN : TryStep("display", "Display::new", ok, "vbo")
    /\ UNCHANGED <<view, projection, loopVars, frameVars, bufVars, callVars>>

\* line 61: VertexBuffer::new(&display, &cube)?
InitVertexBuffer ==
    /\ \E ok \in BOOLEAN :
          /\ TryStep("vbo", "VertexBuffer::new", ok, "ibuf")
          /\ vbo' = IF ok THEN cube ELSE vbo
    /\ UNCHANGED <<view, projection, loopVars, frameVars, ibuf, callVars>>

\* line 62: IndexBuffer::new(&display, TrianglesList, &indices)?
InitIndexBuffer ==
    /\ \E ok \in BOOLEAN :
          /\ TryStep("ibuf", "IndexBuffer::new", ok, "program")
          /\ ibuf' = IF ok THEN indices ELSE ibuf
    /\ UNCHANGED <<view, projection, loopVars, frameVars, vbo, callVars>>

\* lines 92-97: Program::from_source(..)?
InitProgram ==
    /\ \E ok \in BOOLEAN : TryStep("program", "Program::from_source", ok, "setup")
    /\ UNCHANGED <<view, projection, loopVars, frameVars, bufVars, callVars>>

\* lines 99-120: draw parameters, the View and Projection matrices, theta,
\* and the call of event_loop.run
InitMatrices ==
    /\ pc = "setup"
    /\ pc' = "run"
    /\ view' = v_matrix
    /\ projection' = p_matrix
    /\ theta' = 0
    /\ phase' = "start"
    /\ UNCHANGED <<initLog, ctrlflow, remaining, lastEvent, clears, draws,
                   presents, frames, firstDraw, lastDraw, failedCall, bufVars,
                   callVars>>

\* ------------------------------------------------------------ the closure
\* a match whose StartCause::Init arm returns
FilterInitReturns(ev) ==
    CASE ev = "CloseRequested" -> "exit"
      [] ev = "WindowEvent" -> "render"
      [] ev = "ResumeTimeReached" -> "render"
      [] OTHER -> "return"

\* a match whose StartCause::ResumeTimeReached arm returns
FilterTimerReturns(ev) ==
    CASE ev = "CloseRequested" -> "exit"
      [] ev = "WindowEvent" -> "render"
      [] ev = "Init" -> "render"
      [] OTHER -> "return"

\* lines 124-140: what the match does with an event: "exit" sets
\* ControlFlow::Exit and returns, "return" returns, "render" falls through
\* to the render section
Filter(ev) ==
    CASE ev = "CloseRequested" -> "exit"
      [] ev = "WindowEvent" -> "render"
      [] ev = "ResumeTimeReached" -> "render"
      [] ev = "Init" -> "render"
      [] OTHER -> "return"

\* an unwrap replaced by dropping the Result
UnwrapIgnoresErr(ok) == "value"

\* Result::unwrap of lines 158 and 160
Unwrap(ok) == IF ok THEN "value" ELSE "panic"

\* lines 121-122: *ctrlflow = WaitUntil(now + 16_666_667 ns).  ControlFlow::Exit
\* is sticky in the event loop: once set, a write of the closure is discarded.
Arm(cf) == IF cf = "Exit" THEN "Exit" ELSE "WaitUntil"
ArmDeadline(cf, rem) == IF cf = "Exit" THEN rem ELSE FrameQuanta

\* a deadline taken when the render section has ended
LeftArmedAtEnd(deadline, d) == deadline

\* lines 121-162: the quanta left until the deadline when a closure call ends
\* d quanta after it took Instant::now() for the deadline
Left(deadline, d) == IF deadline > d THEN deadline - d ELSE 0

\* lines 142-162: display.draw(), clear, draw, finish, theta update; drawOk and
\* finishOk are the results of target.draw and target.finish
Render(drawOk, finishOk) ==
    /\ clears' = clears + 1
    /\ draws' = draws + 1
    /\ lastDraw' = Uniforms(theta)
    /\ firstDraw' = IF draws = 0 THEN Uniforms(theta) ELSE firstDraw
    /\ IF Unwrap(drawOk) = "panic"
       THEN /\ pc' = "panicked"
            /\ failedCall' = "draw"
            /\ steps' = <<"arm", "clear", "draw">>
            /\ UNCHANGED <<presents, theta, frames>>
       ELSE /\ presents' = presents + 1
            /\ failedCall' = IF failedCall # "none" THEN failedCall
                              ELSE IF ~drawOk THEN "draw"
                              ELSE IF ~finishOk THEN "finish"
                              ELSE "none"
            /\ IF Unwrap(finishOk) = "panic"
               THEN /\ pc' = "panicked"
                    /\ steps' = <<"arm", "clear", "draw", "finish">>
                    /\ UNCHANGED <<theta, frames>>
               ELSE /\ theta' = NextTheta(theta)
                    /\ frames' = frames + 1
                    /\ steps' = <<"arm", "clear", "draw", "finish", "advance">>
                    /\ UNCHANGED pc

\* lines 120-163: one call of the closure with event ev
Closure(ev, drawOk, finishOk) ==
    /\ pc = "run"
    /\ lastEvent' = ev
    /\ IF Filter(ev) = "exit"
       THEN /\ ctrlflow' = "Exit"
            /\ remaining' = 0
            /\ steps' = <<"arm", "exit">>
            /\ renderTime' = 0
            /\ UNCHANGED <<pc, frameVars, frameWait>>
       ELSE /\ ctrlflow' = Arm(ctrlflow)
            /\ IF Filter(ev) = "return"
               THEN /\ remaining' = ArmDeadline(ctrlflow, remaining)
                    /\ steps' = <<"arm">>
                    /\ renderTime' = 0
                    /\ UNCHANGED <<pc, frameVars, frameWait>>
               ELSE /\ frames < MaxFrames
                    /\ Render(drawOk, finishOk)
                    /\ \E d \in 0..RenderQuanta :
                          /\ renderTime' = d
                          /\ remaining' =
                                Left(ArmDeadline(ctrlflow, remaining), d)
                          /\ frameWait' =
                                Left(ArmDeadline(ctrlflow, remaining), d)
    /\ UNCHANGED <<initLog, view, projection, bufVars>>

\* an event that returns before the render section has no draw results
Call(ev) == \E drawOk, finishOk \in BOOLEAN : Closure(ev, drawOk, finishOk)

\* --------------------------------------------------------- the event loop
\* event_loop.run (line 120) calls the closure once per event, in the order
\* NewEvents, window and device events, MainEventsCleared, RedrawRequested,
\* RedrawEventsCleared; it then waits for the deadline or the next event, or
\* ends with LoopDestroyed when the control flow is Exit.

\* Event::NewEvents(StartCause::Init), the first event of the loop
NewEventsInit ==
    /\ phase = "start"
    /\ Call("Init")
    /\ phase' = "events"

\* Event::NewEvents(StartCause::ResumeTimeReached): the deadline was reached
NewEventsResumeTimeReached ==
    /\ phase = "wait"
    /\ ctrlflow = "WaitUntil"
    /\ remaining = 0
    /\ Call("ResumeTimeReached")
    /\ phase' = "events"

\* Event::NewEvents(StartCause::WaitCancelled): an event arrived before the
\* deadline
NewEventsWaitCancelled ==
    /\ phase = "wait"
    /\ ctrlflow = "WaitUntil"
    /\ remaining > 0
    /\ Call("WaitCancelled")
    /\ phase' = "events"

\* Event::WindowEvent { event: WindowEvent::CloseRequested, .. }
WindowCloseRequested ==
    /\ phase = "events"
    /\ Call("CloseRequested")
    /\ phase' = "events"

\* Event::WindowEvent with any other WindowEvent (Resized, Focused, ...)
WindowEventOther ==
    /\ phase = "events"
    /\ Call("WindowEvent")
    /\ phase' = "events"

\* Event::DeviceEvent (raw input)
DeviceEvent ==
    /\ phase = "events"
    /\ Call("DeviceEvent")
    /\ phase' = "events"

\* Event::MainEventsCleared
MainEventsCleared ==
    /\ phase = "events"
    /\ Call("MainEventsCleared")
    /\ phase' = "redraw"

\* Event::RedrawRequested
RedrawRequested ==
    /\ phase = "redraw"
    /\ Call("RedrawRequested")
    /\ phase' = "redraw"

\* Event::RedrawEventsCleared, the last event of an iteration
RedrawEventsCleared ==
    /\ phase = "redraw"
    /\ Call("RedrawEventsCleared")
    /\ phase' = IF ctrlflow = "Exit" THEN "destroy" ELSE "wait"

\* Event::LoopDestroyed, then the process exits
LoopDestroyed ==
    /\ phase = "destroy"
    /\ \E drawOk, finishOk \in BOOLEAN :
          /\ Closure("LoopDestroyed", drawOk, finishOk)
    /\ phase' = "done"

\* the clock moves towards the armed deadline
Elapse ==
    /\ pc = "run"
    /\ phase # "start"
    /\ ctrlflow = "WaitUntil"
    /\ remaining > 0
    /\ remaining' = remaining - 1
    /\ frameWait' = IF frameWait > 0 THEN frameWait - 1 ELSE 0
    /\ UNCHANGED <<initVars, phase, ctrlflow, lastEvent, frameVars, bufVars,
                   steps, renderTime>>

Next ==
    \/ InitDisplay
    \/ InitVertexBuffer
    \/ InitIndexBuffer
    \/ InitProgram
    \/ InitMatrices
    \/ NewEventsInit
    \/ NewEventsResumeTimeReached
    \/ NewEventsWaitCancelled
    \/ WindowCloseRequested
    \/ WindowEventOther
    \/ DeviceEvent
    \/ MainEventsCleared
    \/ RedrawRequested
    \/ RedrawEventsCleared
    \/ LoopDestroyed
    \/ Elapse

Spec == Init /\ [][Next]_vars

\* main and the event loop keep running and the clock keeps moving: every
\* step of main, every event the loop itself produces (Init, the timer
\* wake-up, MainEventsCleared, RedrawEventsCleared, LoopDestroyed) and the
\* passing of time happen when they stay possible.  Events of the window
\* system (window, device, redraw requests, a wake-up before the deadline)
\* arrive or not as they please.
Fairness ==
    /\ WF_vars(InitDisplay)
    /\ WF_vars(InitVertexBuffer)
    /\ WF_vars(InitIndexBuffer)
    /\ WF_vars(InitProgram)
    /\ WF_vars(InitMatrices)
    /\ WF_vars(NewEventsInit)
    /\ WF_vars(NewEventsResumeTimeReached)
    /\ WF_vars(MainEventsCleared)
    /\ WF_vars(RedrawEventsCleared)
    /\ WF_vars(LoopDestroyed)
    /\ WF_vars(Elapse)

FairSpec == Spec /\ Fairness

TypeOK ==
    /\ pc \in {"display", "vbo", "ibuf", "program", "setup", "run", "failed",
               "panicked"}
    /\ phase \in {"start", "events", "redraw", "wait", "destroy", "done"}
    /\ ctrlflow \in {"Poll", "WaitUntil", "Exit"}
    /\ remaining \in 0..FrameQuanta
    /\ theta \in 0..(PI2 + DTHETA)
    /\ frames \in 0..MaxFrames

\* ------------------------------------------------------------- properties
\* the states of the Frame Driver
Running == pc = "run" /\ ctrlflow # "Exit"
Exiting == pc = "run" /\ ctrlflow = "Exit"

\* the events other than TimerElapsed, CloseRequested and Initialized
OtherEvents ==
    {"WindowEvent", "DeviceEvent", "WaitCancelled", "MainEventsCleared",
     "RedrawRequested", "RedrawEventsCleared"}

\* C1: in Running, handling any event other than TimerElapsed,
\* CloseRequested or Initialized (a device event, a non-close window event)
\* leaves the angle and the Running state unchanged and issues no clear, no
\* draw and no present.
C1_OtherEventHasNoEffect ==
    [][\A ev \in OtherEvents :
          (Running /\ Call(ev)) =>
              /\ theta' = theta
              /\ Running'
              /\ clears' = clears
              /\ draws' = draws
              /\ presents' = presents]_vars

\* C2: handling CloseRequested in Running moves the driver to Exiting, and
\* once the driver is Exiting no later event issues a draw call.
C2_NoDrawAfterClose ==
    [][/\ (Running /\ Call("CloseRequested")) => Exiting'
       /\ Exiting => draws' = draws]_vars

C5_AngleInRange == 0 <= theta /\ theta < PI2

\* the angle has gone once around and is back in the first step
C5_Witness == frames >= 315 /\ theta < DTHETA /\ lastDraw.m > PI2 - DTHETA

\* C6: every frame tick changes the angle to (angle + 0.02) mod 2*pi, the
\* sum rounded to f32 (so within half an f32 spacing, 64 * 2^-28, of the
\* real value); nothing else changes the angle; starting from angle 0,
\* after exactly 1 tick the angle is 0.02.
C6_AngleStep ==
    [][/\ frames' # frames =>
            /\ frames' = frames + 1
            /\ theta' = F32Round(theta + DTHETA) % PI2
            /\ \E wrap \in {0, PI2} :
                  /\ theta' - (theta + DTHETA - wrap) <= 64
                  /\ (theta + DTHETA - wrap) - theta' <= 64
       /\ frames' = frames => theta' = theta
       /\ frames' = 1 => theta' = DTHETA]_vars

\* two frame ticks have been made from angle 0
C6_Witness == frames = 2 /\ theta = 2 * DTHETA /\ lastDraw.m = DTHETA

\* C7 as stated: after exactly 314 frame ticks the angle has wrapped around
\* 2*pi once and is about 0.00017 (0.00017 * 2^28 = 45634), below one step.
C7_WrappedAfter314 ==
    frames = 314 => (theta < DTHETA /\ theta > 45634 - 26844
                                   /\ theta < 45634 + 26844)

\* C7 amended: after exactly 314 frame ticks the angle is about 6.28
\* (314 * 0.02 within 0.0001) and has not wrapped: it is below 2*pi by less
\* than one step; no tick up to the 314th wraps; the 315th tick is the first
\* to wrap and leaves the angle at about 0.0168 (315 * 0.02 - 2*pi).
C7_NoWrapUntil315 ==
    /\ frames <= 314 =>
          /\ theta - frames * DTHETA < 26844
          /\ frames * DTHETA - theta < 26844
    /\ frames = 314 => (theta < PI2 /\ PI2 - theta < DTHETA)
    /\ frames = 315 =>
          /\ theta < DTHETA
          /\ theta - (315 * DTHETA - PI2) < 26844
          /\ (315 * DTHETA - PI2) - theta < 26844

\* 314 frame ticks have been made and the angle is just below 2*pi
C7_Witness == frames = 314 /\ theta > PI2 - DTHETA /\ theta < PI2

\* C8: when the draw call or the present call of a frame returns an error
\* the handler panics: the failed call was issued once and is not repeated,
\* a failed draw is not followed by a present, the angle is not advanced,
\* and from then on nothing more happens (no event is handled, no frame is
\* drawn).
C8_FrameFailureIsFatal ==
    [][/\ (failedCall = "none" /\ failedCall' # "none") =>
            /\ pc' = "panicked"
            /\ theta' = theta
            /\ frames' = frames
            /\ clears' = clears + 1
            /\ draws' = draws + 1
            /\ presents' = IF failedCall' = "draw" THEN presents
                           ELSE presents + 1
       /\ failedCall # "none" => UNCHANGED vars
       /\ (pc' = "panicked") = (failedCall' # "none")]_vars

\* a present call failed after some frames had been completed
C8_Witness ==
    /\ pc = "panicked"
    /\ failedCall = "finish"
    /\ frames >= 1
    /\ presents = frames + 1

\* the fallible initialization calls of main, in program order
InitCalls ==
    <<"Display::new", "VertexBuffer::new", "IndexBuffer::new",
      "Program::from_source">>

\* C9: when an initialization call fails, main ends with the error: the
\* failed call is the last one made (no retry, no later call), every call
\* was made once in program order, the frame loop is never entered, no
\* event is handled and no clear, draw or present is issued.
C9_InitFailureIsFatal ==
    [][/\ \A i \in 1..Len(initLog') :
             /\ initLog'[i].call = InitCalls[i]
             /\ ~initLog'[i].ok => (i = Len(initLog') /\ pc' = "failed")
       /\ pc' = "failed" =>
             /\ ~initLog'[Len(initLog')].ok
             /\ lastEvent' = "none"
             /\ phase' = "start"
             /\ ctrlflow' = "Poll"
             /\ clears' = 0 /\ draws' = 0 /\ presents' = 0 /\ frames' = 0
       /\ pc = "failed" => UNCHANGED vars]_vars

\* the index buffer upload failed after two successful calls
C9_Witness ==
    /\ pc = "failed"
    /\ Len(initLog) = 3
    /\ initLog[2].ok
    /\ ~initLog[3].ok

\* C10: no handled event changes the View and Projection matrices computed
\* at startup, and every draw call receives the View and the Projection of
\* the first draw call, which are the matrices computed at startup.
C10_ViewProjectionConstant ==
    [][/\ pc = "run" => (view' = view /\ projection' = projection)
       /\ pc' = "run" => (view' = v_matrix /\ projection' = p_matrix)
       /\ draws' > 0 =>
             /\ lastDraw'.v = firstDraw'.v
             /\ lastDraw'.p = firstDraw'.p
             /\ firstDraw'.v = v_matrix
             /\ firstDraw'.p = p_matrix
             /\ firstDraw'.v # firstDraw'.p]_vars

\* several frames were drawn with different angles
C10_Witness ==
    /\ draws >= 3
    /\ lastDraw.m # firstDraw.m
    /\ lastDraw.v = view
    /\ lastDraw.p = projection

\* C11: the index list has exactly 36 entries and every entry is in 0..7,
\* so every index of the uploaded index buffer refers to one of the 8
\* vertices of the uploaded vertex buffer.
C11_IndicesInRange ==
    ibuf # NoBuffer =>
        /\ Len(ibuf) = 36
        /\ Len(vbo) = 8
        /\ \A i \in 1..Len(ibuf) :
              /\ ibuf[i] \in 0..7
              /\ ibuf[i] + 1 \in DOMAIN vbo

\* a frame was drawn from the uploaded buffers
C11_Witness ==
    /\ ibuf = indices
    /\ vbo = cube
    /\ draws >= 1
    /\ Len(ibuf) = 36

C13_FramesOnePeriodApart ==
    [][draws' # draws => (draws = 0 \/ frameWait = 0)]_vars

\* the events the closure can be called with
AllEvents ==
    OtherEvents \cup {"Init", "ResumeTimeReached", "CloseRequested",
                      "LoopDestroyed"}

\* C14: Exiting is terminal and has no actions: once the driver is Exiting,
\* handling any event leaves it Exiting, leaves the exit directive in place
\* (no new timed wait, no deadline armed), issues no clear, draw or present
\* and does not change the angle.
C14_ExitingDoesNothing ==
    [][\A ev \in AllEvents :
          (Exiting /\ Call(ev)) =>
              /\ Exiting'
              /\ ctrlflow' = "Exit"
              /\ remaining' = remaining
              /\ clears' = clears
              /\ draws' = draws
              /\ presents' = presents
              /\ theta' = theta]_vars

\* the events whose arm of the match returns without rendering
ReturnedEvents ==
    {"DeviceEvent", "WaitCancelled", "MainEventsCleared", "RedrawRequested",
     "RedrawEventsCleared"}

\* C15: handling an ignored event in Running does not change the armed wake
\* deadline: the time left until the next scheduled TimerElapsed is the same
\* before and after the event.
C15_IgnoredEventKeepsDeadline ==
    [][\A ev \in ReturnedEvents :
          (Running /\ ctrlflow = "WaitUntil" /\ Call(ev)) =>
              remaining' = remaining]_vars

\* the driver has stopped: main returned an error, a frame call panicked or
\* the exit was requested
Stopped == pc \in {"failed", "panicked"} \/ ctrlflow = "Exit"

\* C16: as long as the driver is Running, time advances and CloseRequested
\* never arrives, frames keep being rendered, even when ignored events keep
\* arriving less than a frame period apart: every run either stops or goes
\* on to render every frame up to the last one of the model.
C16_FramesKeepComing == <>(Stopped \/ frames = MaxFrames)

\* C17: the Model matrix of each frame is made from the angle before that
\* frame's advance: the n-th frame drawn since startup uses the angle
\* ((n - 1) * 0.02) mod 2*pi (within 0.0001 of f32 rounding), the first
\* frame uses angle 0, the angle after a completed frame is one step past
\* the angle that frame was drawn with, and the number of angle advances
\* equals the number of frames presented (present calls that succeeded).
C17_ModelUsesAngleBeforeAdvance ==
    /\ draws >= 1 =>
          /\ firstDraw.m = 0
          /\ lastDraw.m - (((draws - 1) * DTHETA) % PI2) < 26844
          /\ (((draws - 1) * DTHETA) % PI2) - lastDraw.m < 26844
    /\ (draws >= 1 /\ pc = "run") =>
          /\ draws = frames
          /\ theta = F32Round(lastDraw.m + DTHETA) % PI2
    /\ pc = "panicked" => (draws = frames + 1 /\ theta = lastDraw.m)
    /\ frames = presents - (IF failedCall = "finish" THEN 1 ELSE 0)

\* the 316th frame was drawn with the angle of 315 advances, past the wrap
C17_Witness ==
    /\ draws = 316
    /\ frames = 316
    /\ presents = 316
    /\ lastDraw.m < DTHETA
    /\ lastDraw.m > 0

\* the vertices of the k-th triangle of the index buffer (TrianglesList:
\* three consecutive indices per triangle)
Triangle(k) == {ibuf[3 * k - 2], ibuf[3 * k - 1], ibuf[3 * k]}

\* the vertices of the vertex buffer on the face of the cube where
\* coordinate axis has the value sign * 0.5
FaceVertices(axis, sign) ==
    {i \in 0..(Len(vbo) - 1) : vbo[i + 1].coord[axis] = sign * (Unit \div 2)}

\* the triangles that lie on that face
FaceTriangles(axis, sign) ==
    {k \in 1..(Len(ibuf) \div 3) : Triangle(k) \subseteq FaceVertices(axis, sign)}

\* C18: the 36 indices form 12 triangles of three distinct vertices each
\* that make up the cube: each of the 6 faces (the 4 vertices sharing the
\* value +0.5 or -0.5 on one axis) is covered by exactly two triangles whose
\* vertices all lie on that face and which together use all 4 vertices of
\* the face; every triangle lies on a face.
C18_TrianglesFormCube ==
    ibuf # NoBuffer =>
        /\ Len(ibuf) = 3 * 12
        /\ \A k \in 1..12 : Cardinality(Triangle(k)) = 3
        /\ \A axis \in 1..3 : \A sign \in {-1, 1} :
              /\ Cardinality(FaceVertices(axis, sign)) = 4
              /\ Cardinality(FaceTriangles(axis, sign)) = 2
              /\ UNION {Triangle(k) : k \in FaceTriangles(axis, sign)}
                    = FaceVertices(axis, sign)
        /\ \A k \in 1..12 : \E axis \in 1..3 : \E sign \in {-1, 1} :
              k \in FaceTriangles(axis, sign)

\* the uploaded index buffer names all 8 vertices and frames were drawn
C18_Witness ==
    /\ ibuf # NoBuffer
    /\ {ibuf[i] : i \in 1..Len(ibuf)} = 0..7
    /\ Len(vbo) = 8
    /\ draws >= 2
    /\ pc = "run"

====
